---- MODULE Spec2Model ----
(***************************************************************************)
(* Commodities dashboard (webapp.py): the sidebar selection and period     *)
(* clamp, the cached fetch_history wrapper around the market-data          *)
(* provider, and metrics_from_df.                                          *)
(*                                                                         *)
(* Floating point values are modelled as exact fractions n/d (d > 0, in    *)
(* lowest terms) tagged "num"; the float not-a-number is the value NaN and *)
(* Python's None is the value None.  Rounding is not modelled.             *)
(***************************************************************************)
EXTENDS Integers, Sequences, FiniteSets, TLC

VARIABLES
    pc,          \* position of the script: "idle" (waiting for a rerun), "fetch" (line 112), "derive"/"done" (metrics_from_df only)
    label,       \* st.selectbox("Commodity")
    period_ui,   \* st.selectbox("Period")
    interval_ui, \* st.selectbox("Interval")
    ticker,      \* COMMODITIES[label]
    period,      \* provider period token, after the clamp
    interval,    \* provider interval token
    out,         \* calls made by the current script run, in order
    cache,       \* st.cache_data store of fetch_history: key -> [data, age]
    calls,       \* number of yf.download calls made so far
    returned,    \* history: key -> what yf.download did (reply) and what the body of fetch_history then returned (value), the last time the body ran for the key
    lookup,      \* history: what the cache lookup of the current run found: [found, age]
    reply,       \* what yf.download did in the current run (NoCall if it was not called)
    df,          \* module-level df (line 113); the argument of metrics_from_df
    m            \* module-level m (line 149); the result of metrics_from_df

vars == <<pc, label, period_ui, interval_ui, ticker, period, interval,
          out, cache, calls, returned, lookup, reply, df, m>>

(***************************************************************************)
(* Bounds                                                                  *)
(***************************************************************************)
MaxCalls == 2      \* provider calls in one explored session
MaxBars == 3       \* bars of a series given to metrics_from_df

(***************************************************************************)
(* Values                                                                  *)
(***************************************************************************)
None == [k |-> "none", n |-> 0, d |-> 1]
NaN == [k |-> "nan", n |-> 0, d |-> 1]
Float(x) == [k |-> "num", n |-> x, d |-> 1]
Unbound == [k |-> "unbound"]
NoCall == [kind |-> "nocall", msg |-> "", frame |-> Unbound]
NoLookup == [found |-> FALSE, age |-> -1]

Abs(x) == IF x < 0 THEN -x ELSE x

RECURSIVE GCD(_, _)
GCD(a, b) == IF b = 0 THEN a ELSE GCD(b, a % b)

\* the float n/d, d # 0
Frac(n, d) ==
    LET g == GCD(Abs(n), Abs(d))
        s == IF d < 0 THEN -1 ELSE 1
    IN [k |-> "num", n |-> (s * n) \div g, d |-> (s * d) \div g]

FSub(a, b) == Frac(a.n * b.d - b.n * a.d, a.d * b.d)
FDiv(a, b) == Frac(a.n * b.d, a.d * b.n)
FMul(a, b) == Frac(a.n * b.n, a.d * b.d)
FLess(a, b) == a.n * b.d < b.n * a.d

Range(s) == {s[i] : i \in DOMAIN s}

(***************************************************************************)
(* Lookup tables, lines 35-63                                              *)
(***************************************************************************)
COMMODITIES ==
    ("Gold (GC=F)" :> "GC=F") @@ ("Silver (SI=F)" :> "SI=F") @@
    ("WTI Crude (CL=F)" :> "CL=F") @@ ("Brent Crude (BZ=F)" :> "BZ=F") @@
    ("Natural Gas (NG=F)" :> "NG=F") @@ ("Copper (HG=F)" :> "HG=F") @@
    ("Corn (ZC=F)" :> "ZC=F") @@ ("Wheat (ZW=F)" :> "ZW=F") @@
    ("Soybeans (ZS=F)" :> "ZS=F") @@ ("Coffee (KC=F)" :> "KC=F") @@
    ("Cocoa (CC=F)" :> "CC=F") @@ ("Cotton (CT=F)" :> "CT=F")

PERIOD_MAP ==
    ("1M" :> "1mo") @@ ("3M" :> "3mo") @@ ("6M" :> "6mo") @@
    ("1Y" :> "1y") @@ ("2Y" :> "2y") @@ ("5Y" :> "5y")

INTERVAL_MAP ==
    ("Daily" :> "1d") @@ ("Hourly" :> "1h") @@ ("15 min" :> "15m")

(***************************************************************************)
(* Data frames                                                             *)
(*   cols  : the column labels                                             *)
(*   len   : the number of rows (bars), oldest first                       *)
(*   data  : per column the sequence of its values, <<>> for a column the  *)
(*           frame does not have                                           *)
(*   attrs : DataFrame.attrs as a set of <<key, value>> pairs              *)
(***************************************************************************)
\* the columns the script reads ("Adj Close" is never read)
AllColumns == {"Open", "High", "Low", "Close", "Volume"}

\* pd.DataFrame()
EmptyDataFrame ==
    [cols |-> {}, len |-> 0,
     data |-> [Open |-> <<>>, High |-> <<>>, Low |-> <<>>, Close |-> <<>>, Volume |-> <<>>],
     attrs |-> {}]

\* df.empty
Empty(f) == f.len = 0 \/ f.cols = {}

\* df.attrs.get(key): <<>> stands for None, <<text>> for a string
AttrsGet(f, key) ==
    IF \E p \in f.attrs : p[1] = key
    THEN <<(CHOOSE p \in f.attrs : p[1] = key)[2]>>
    ELSE <<>>

RECURSIVE TakeRows(_, _, _)
TakeRows(s, keep, i) ==
    IF i > Len(s) THEN <<>>
    ELSE (IF i \in keep THEN <<s[i]>> ELSE <<>>) \o TakeRows(s, keep, i + 1)

\* df.dropna(how="all"): drops the rows whose values are all absent
DropNaAll(f) ==
    LET keep == {i \in 1..f.len : \E c \in f.cols : f.data[c][i] # NaN}
    IN [cols |-> f.cols, len |-> Cardinality(keep),
        data |-> [c \in AllColumns |-> TakeRows(f.data[c], keep, 1)],
        attrs |-> f.attrs]

\* Series.dropna()
DropNa(s) == SelectSeq(s, LAMBDA v : v # NaN)

\* Series.max() / Series.min(): absent values are skipped, NaN when none is present
SeriesMax(s) ==
    LET present == Range(DropNa(s))
    IN IF present = {} THEN NaN
       ELSE CHOOSE v \in present : \A w \in present : ~FLess(v, w)

SeriesMin(s) ==
    LET present == Range(DropNa(s))
    IN IF present = {} THEN NaN
       ELSE CHOOSE v \in present : \A w \in present : ~FLess(w, v)

(***************************************************************************)
(* metrics_from_df, lines 118-147                                          *)
(***************************************************************************)
MetricFields == {"last", "chg", "chg_pct", "hi", "lo", "vol"}

\* dict.fromkeys([...]), lines 120 and 124
AllZero ==
    [last |-> Float(0), chg |-> Float(0), chg_pct |-> Float(0),
     hi |-> Float(0), lo |-> Float(0), vol |-> Float(0)]

AllUnknown ==
    [last |-> None, chg |-> None, chg_pct |-> None,
     hi |-> None, lo |-> None, vol |-> None]

\* line 126: close.iloc[-1]
LastClose(close) == close[Len(close)]

\* line 127: close.iloc[-2] if len(close) >= 2 else None
PrevCloseWrap(close) ==
    IF Len(close) >= 2 THEN close[Len(close) - 1] ELSE close[Len(close)]

PrevClose(close) ==
    IF Len(close) >= 2 THEN close[Len(close) - 1] ELSE None

\* line 129: (last - prev) if prev is not None else None
ChgReversed(last, prev) == IF prev # None THEN FSub(prev, last) ELSE None

Chg(last, prev) == IF prev # None THEN FSub(last, prev) ELSE None

\* line 130: (chg / prev * 100.0) if prev not in (None, 0.0) else None
ChgPctUnguarded(chg, prev) ==
    IF prev = None THEN None
    ELSE IF prev.n = 0 THEN NaN
    ELSE FMul(FDiv(chg, prev), Float(100))

ChgPct(chg, prev) ==
    IF prev # None /\ prev.n # 0 THEN FMul(FDiv(chg, prev), Float(100)) ELSE None

metrics_from_df(f) ==
    IF Empty(f) \/ "Close" \notin f.cols THEN AllUnknown
    ELSE
        LET close == DropNa(f.data["Close"])
        IN IF Len(close) = 0 THEN AllUnknown
           ELSE
               LET last == LastClose(close)
                   prev == PrevClose(close)
                   chg == Chg(last, prev)
                   chg_pct == ChgPct(chg, prev)
                   hi == IF "High" \in f.cols THEN SeriesMax(f.data["High"]) ELSE None
                   lo == IF "Low" \in f.cols THEN SeriesMin(f.data["Low"]) ELSE None
                   vol == IF "Volume" \in f.cols /\ Len(f.data["Volume"]) # 0
                          THEN f.data["Volume"][Len(f.data["Volume"])]
                          ELSE None
               IN [last |-> last, chg |-> chg, chg_pct |-> chg_pct,
                   hi |-> hi, lo |-> lo, vol |-> vol]

(***************************************************************************)
(* The series metrics_from_df is applied to                                *)
(***************************************************************************)
CloseValues == {NaN, Float(0), Float(1), Float(2)}
HighValues == {NaN, Float(3)}
LowValues == {NaN, Float(0)}
VolumeValues == {NaN, Float(5)}

Column(c, cols, n, values) == IF c \in cols THEN [1..n -> values] ELSE {<<>>}

InputFrames(cols, n) ==
    [cols : {cols}, len : {n},
     data : [Open : {<<>>},
             High : Column("High", cols, n, HighValues),
             Low : Column("Low", cols, n, LowValues),
             Close : Column("Close", cols, n, CloseValues),
             Volume : Column("Volume", cols, n, VolumeValues)],
     attrs : {{}}]

\* the values of every variable the metrics specification does not use
RenderIdle ==
    /\ label = "Gold (GC=F)" /\ period_ui = "6M" /\ interval_ui = "Daily"
    /\ ticker = "GC=F" /\ period = "6mo" /\ interval = "1d"
    /\ out = <<>> /\ cache = <<>> /\ calls = 0 /\ returned = <<>>
    /\ reply = NoCall /\ lookup = NoLookup

InitMetrics ==
    /\ pc = "derive"
    /\ \E cols \in SUBSET {"High", "Low", "Close", "Volume"}, n \in 0..MaxBars :
         df \in InputFrames(cols, n)
    /\ m = Unbound
    /\ RenderIdle

\* line 149: m = metrics_from_df(df)
Derive ==
    /\ pc = "derive"
    /\ m' = metrics_from_df(df)
    /\ pc' = "done"
    /\ UNCHANGED <<label, period_ui, interval_ui, ticker, period, interval,
                   out, cache, calls, returned, lookup, reply, df>>

NextMetrics == Derive

SpecMetrics == InitMetrics /\ [][NextMetrics]_vars

(***************************************************************************)
(* Sidebar and period clamp, lines 68-85                                   *)
(***************************************************************************)
\* line 83: the condition of the clamp
NeedsClampHourlyOnly(p, i) == i \in {"1h"} /\ p \notin {"1mo", "3mo"}

NeedsClamp(p, i) == i \in {"15m", "1h"} /\ p \notin {"1mo", "3mo"}

\* lines 83-85: the period given to fetch_history
ClampPeriod(p, i) == IF NeedsClamp(p, i) THEN "3mo" ELSE p

Warning == <<"st.warning", "Intraday intervals only support recent windows on Yahoo. Switching to 3M.">>

\* lines 68-85 of one script run, for a selection <<label, period_ui, interval_ui>>
Sidebar(choices) ==
    /\ pc = "idle"
    /\ \E c \in choices :
         /\ label' = c[1]
         /\ period_ui' = c[2]
         /\ interval_ui' = c[3]
         /\ ticker' = COMMODITIES[c[1]]
         /\ interval' = INTERVAL_MAP[c[3]]
         /\ period' = ClampPeriod(PERIOD_MAP[c[2]], INTERVAL_MAP[c[3]])
         /\ out' = IF NeedsClamp(PERIOD_MAP[c[2]], INTERVAL_MAP[c[3]])
                   THEN <<Warning>> ELSE <<>>
    /\ pc' = "fetch"
    /\ df' = Unbound
    /\ m' = Unbound
    /\ reply' = NoCall
    /\ lookup' = NoLookup
    /\ UNCHANGED <<cache, calls, returned>>

(***************************************************************************)
(* fetch_history, lines 90-110                                             *)
(***************************************************************************)
TTL == 60

\* what yf.download can do: raise an exception with a message, return None,
\* or return a frame
Raise(msg) == [kind |-> "raise", msg |-> msg, frame |-> Unbound]
ReturnNone == [kind |-> "none", msg |-> "", frame |-> Unbound]
Return(f) == [kind |-> "frame", msg |-> "", frame |-> f]

Bar(o, h, l, c, v) == [Open |-> o, High |-> h, Low |-> l, Close |-> c, Volume |-> v]

FrameOf(bars) ==
    [cols |-> AllColumns, len |-> Len(bars),
     data |-> [c \in AllColumns |-> [i \in 1..Len(bars) |-> bars[i][c]]],
     attrs |-> {}]

NullBar == Bar(NaN, NaN, NaN, NaN, NaN)

ProviderResponses ==
    { Raise(""), Raise("timeout"), ReturnNone,
      Return(FrameOf(<<>>)),
      Return(FrameOf(<<NullBar>>)),
      Return(FrameOf(<<NullBar, Bar(Float(1), Float(3), Float(1), Float(2), NaN)>>)) }

\* lines 92-110: the body of fetch_history, given what yf.download did
fetch_history_NoAttrs(r) ==
    IF r.kind = "raise" THEN EmptyDataFrame
    ELSE IF r.kind = "none" \/ Empty(r.frame) THEN EmptyDataFrame
    ELSE DropNaAll(r.frame)

fetch_history(r) ==
    IF r.kind = "raise"
    THEN [EmptyDataFrame EXCEPT !.attrs = {<<"error", r.msg>>}]
    ELSE IF r.kind = "none" \/ Empty(r.frame) THEN EmptyDataFrame
    ELSE DropNaAll(r.frame)

\* st.cache_data stores the pickled return value and hands out what it
\* unpickles; a DataFrame pickles to its frame data and its attrs
PickleDataOnly(f) == <<"DataFrame", f.cols, f.len, f.data, {}>>

Pickle(f) == <<"DataFrame", f.cols, f.len, f.data, f.attrs>>

Unpickle(b) == [cols |-> b[2], len |-> b[3], data |-> b[4], attrs |-> b[5]]

\* line 90, @st.cache_data(ttl=60): what a lookup of key can do.  An entry
\* younger than ttl is served, an entry older than ttl is not; the source does
\* not say which of the two an entry of age exactly ttl gets.
CacheOutcomesNoExpiry(c, key) ==
    IF key \notin DOMAIN c THEN {"miss"} ELSE {"hit"}

CacheOutcomesNoCache(c, key) == {"miss"}

CacheOutcomes(c, key) ==
    IF key \notin DOMAIN c THEN {"miss"}
    ELSE IF c[key].age < TTL THEN {"hit"}
    ELSE IF c[key].age = TTL THEN {"hit", "miss"}
    ELSE {"miss"}

Put(f, key, v) == [x \in DOMAIN f \cup {key} |-> IF x = key THEN v ELSE f[x]]

(***************************************************************************)
(* The rest of the script run, lines 112-169                               *)
(***************************************************************************)
\* lines 163-168: the st.error call of the empty branch
ErrorCall(f) ==
    LET err == AttrsGet(f, "error")
    IN <<"st.error", label, ticker,
         IF err # <<>> /\ err[1] # "" THEN "Details: " ELSE "",
         IF err # <<>> /\ err[1] # "" THEN err[1] ELSE "">>

\* lines 149-170: metrics, then the error message and stop, or the chart.
\* The chart, volume and statistics panels (lines 171-251) are one call here.
Display(f, calls_made) ==
    /\ df' = f
    /\ m' = metrics_from_df(f)
    /\ out' = out \o calls_made \o <<<<"metrics_from_df">>>> \o
              (IF Empty(f) THEN <<ErrorCall(f), <<"st.stop">>>>
               ELSE <<<<"st.plotly_chart">>>>)
    /\ pc' = "idle"

\* lines 112-113 and on: fetch_history(ticker, period, interval) through the cache
Load ==
    /\ pc = "fetch"
    /\ LET key == <<ticker, period, interval>>
           call == <<"fetch_history", ticker, period, interval>>
       IN /\ lookup' = IF key \in DOMAIN cache
                        THEN [found |-> TRUE, age |-> cache[key].age]
                        ELSE NoLookup
          /\ \E o \in CacheOutcomes(cache, key) :
               \/ /\ o = "hit"
                  /\ Display(Unpickle(cache[key].data), <<call>>)
                  /\ UNCHANGED <<cache, calls, returned, reply>>
               \/ /\ o = "miss"
                  /\ calls < MaxCalls
                  /\ \E r \in ProviderResponses :
                       /\ reply' = r
                       /\ calls' = calls + 1
                       /\ returned' = Put(returned, key,
                                          [reply |-> r, value |-> fetch_history(r)])
                       /\ cache' = Put(cache, key,
                                       [data |-> Pickle(fetch_history(r)), age |-> 0])
                       /\ Display(fetch_history(r),
                                  <<call, <<"yf.download", ticker, period, interval>>>>)
    /\ UNCHANGED <<label, period_ui, interval_ui, ticker, period, interval>>

\* time passes between two script runs; the ages stop at TTL + 1, past which
\* every entry is treated alike
Delays == {30}

Tick ==
    /\ pc = "idle"
    /\ \E k \in DOMAIN cache : cache[k].age <= TTL
    /\ \E t \in Delays :
         cache' = [k \in DOMAIN cache |->
                     [cache[k] EXCEPT !.age = IF @ + t > TTL THEN TTL + 1 ELSE @ + t]]
    /\ UNCHANGED <<pc, label, period_ui, interval_ui, ticker, period, interval,
                   out, calls, returned, lookup, reply, df, m>>

Init ==
    /\ pc = "idle"
    /\ df = Unbound
    /\ m = Unbound
    /\ RenderIdle

\* a session that moves between four selections while time passes
SessionChoices ==
    { <<"Gold (GC=F)", "3M", "Daily">>, <<"Gold (GC=F)", "6M", "Daily">>,
      <<"Gold (GC=F)", "1Y", "Hourly">>, <<"Silver (SI=F)", "3M", "Daily">> }

Next == Sidebar(SessionChoices) \/ Load \/ Tick

Spec == Init /\ [][Next]_vars

\* every period and interval the sidebar offers, for one commodity, rerun in
\* quick succession
SidebarChoices ==
    {"Cotton (CT=F)"} \X (DOMAIN PERIOD_MAP) \X (DOMAIN INTERVAL_MAP)

NextSidebar == Sidebar(SidebarChoices) \/ Load

SpecSidebar == Init /\ [][NextSidebar]_vars

(***************************************************************************)
(* Properties                                                              *)
(***************************************************************************)
Key == <<ticker, period, interval>>

\* a script run has finished
Rendered == pc = "idle" /\ out # <<>>

\* the current script run called yf.download
Downloaded == \E i \in DOMAIN out : out[i][1] = "yf.download"

\* the outcome of the provider: a failure, a series with at least one bar that
\* has a value, or an empty series
ReplyKind(r) ==
    IF r.kind = "raise" THEN "failure"
    ELSE IF r.kind = "frame" /\ \E i \in 1..r.frame.len, c \in r.frame.cols : r.frame.data[c][i] # NaN
    THEN "data"
    ELSE "empty"

\* C1: a call of fetch_history for a key whose stored result is less than 60
\* seconds old returns the value the call that stored it returned (whether
\* that was data, an empty result or a failure) and makes no provider call;
\* the call that stored it made exactly one provider call and returned what
\* it computed.
C1_SecondFetchWithinTtl ==
    [][ (pc = "fetch" /\ pc' = "idle") =>
          /\ (Key \in DOMAIN cache /\ cache[Key].age < TTL) =>
                /\ df' = returned[Key].value
                /\ calls' = calls
                /\ returned' = returned
                /\ \A i \in DOMAIN out' : out'[i][1] # "yf.download"
          /\ (calls' # calls) =>
                /\ calls' = calls + 1
                /\ df' = returned'[Key].value
                /\ Cardinality({i \in DOMAIN out' : out'[i][1] = "yf.download"}) = 1
      ]_vars

\* C1 witness: a failure stored 30 seconds ago has been served from the cache
C1_Witness ==
    /\ Rendered /\ ~Downloaded /\ reply = NoCall
    /\ lookup.found /\ lookup.age = 30
    /\ returned[Key].reply.kind = "raise"
    /\ df = returned[Key].value

\* C2: when yf.download raises, fetch_history returns (an empty frame whose
\* attrs carry the exception text) and the script goes on: metrics, then the
\* st.error message with the text, then st.stop.
C2_FailureIsReturned ==
    (Rendered /\ reply.kind = "raise") =>
        /\ Empty(df)
        /\ AttrsGet(df, "error") = <<reply.msg>>
        /\ \E i, j \in DOMAIN out :
              /\ out[i][1] = "yf.download"
              /\ i < j
              /\ out[j][1] = "st.error"
              /\ out[j][5] = reply.msg
              /\ j = Len(out) - 1
              /\ out[Len(out)] = <<"st.stop">>
        /\ m = AllUnknown

\* C2 witness: the provider raised "timeout" and the run ended with st.error
C2_Witness ==
    /\ Rendered /\ reply = Raise("timeout")
    /\ \E j \in DOMAIN out : out[j][1] = "st.error" /\ out[j][5] = "timeout"

\* C3: results of provider failures (whatever the message, the empty one
\* included), of empty responses and of responses with data are pairwise
\* different values, as returned by fetch_history and as read back from the
\* cache; the value the current run got is of the kind the provider gave.
C3_OutcomesDistinct ==
    /\ \A k1, k2 \in DOMAIN cache :
          ReplyKind(returned[k1].reply) # ReplyKind(returned[k2].reply) =>
              /\ returned[k1].value # returned[k2].value
              /\ Unpickle(cache[k1].data) # Unpickle(cache[k2].data)
    /\ Rendered =>
          /\ (ReplyKind(returned[Key].reply) = "failure") <=> (AttrsGet(df, "error") # <<>>)
          /\ (ReplyKind(returned[Key].reply) = "data") <=> ~Empty(df)

\* C3 witness: a failure with an empty message is read back from the cache
\* while an empty result is stored for another key
C3_Witness ==
    /\ Rendered /\ reply = NoCall /\ lookup.found
    /\ returned[Key].reply = Raise("")
    /\ \E k \in DOMAIN cache : ReplyKind(returned[k].reply) = "empty"

\* C4: for an intraday interval (Hourly, 15 min) and a period longer than 3
\* months (6M, 1Y, 2Y, 5Y) the warning is issued first and fetch_history is
\* then called with period 3mo; for every other selection there is no warning
\* and the period of the selection is passed; fetch_history never gets an
\* intraday interval with a period other than 1mo or 3mo.
C4_ClampBeforeFetch ==
    (pc = "fetch" \/ Rendered) =>
        LET clamped == interval_ui \in {"Hourly", "15 min"} /\ period_ui \in {"6M", "1Y", "2Y", "5Y"}
            token == CASE period_ui = "1M" -> "1mo" [] period_ui = "3M" -> "3mo"
                       [] period_ui = "6M" -> "6mo" [] period_ui = "1Y" -> "1y"
                       [] period_ui = "2Y" -> "2y" [] period_ui = "5Y" -> "5y"
            expected == IF clamped THEN "3mo" ELSE token
            fetches == {i \in DOMAIN out : out[i][1] = "fetch_history"}
            warnings == {i \in DOMAIN out : out[i][1] = "st.warning"}
        IN /\ period = expected
           /\ clamped => warnings = {1}
           /\ ~clamped => warnings = {}
           /\ pc = "fetch" => fetches = {}
           /\ Rendered => /\ fetches = {IF clamped THEN 2 ELSE 1}
                          /\ \A i \in fetches : out[i][2] = ticker /\ out[i][3] = expected
           /\ \A i \in fetches :
                 out[i][4] \in {"1h", "15m"} => out[i][3] \in {"1mo", "3mo"}

\* C4 witness: 15 min with 5Y was rendered
C4_Witness ==
    /\ Rendered /\ interval_ui = "15 min" /\ period_ui = "5Y"
    /\ out[1][1] = "st.warning" /\ out[2] = <<"fetch_history", ticker, "3mo", "15m">>

\* C6: a run is served from the cache only if the key has a stored result of
\* age at most 60 seconds; when the key has no stored result, or one older
\* than 60 seconds, the run calls the provider and the new result replaces
\* the stored one; when the stored result is younger than 60 seconds the
\* provider is not called.
C6_ServedOnlyWhileFresh ==
    Rendered =>
        /\ ~Downloaded => (lookup.found /\ lookup.age <= TTL)
        /\ (~lookup.found \/ lookup.age > TTL) =>
              /\ Downloaded
              /\ reply # NoCall
              /\ Key \in DOMAIN cache
              /\ Unpickle(cache[Key].data) = df
              /\ returned[Key].reply = reply
        /\ (lookup.found /\ lookup.age < TTL) => (~Downloaded /\ reply = NoCall)

\* C6 witness: a stored result older than 60 seconds has been replaced
C6_Witness ==
    /\ Rendered /\ lookup.found /\ lookup.age > TTL
    /\ Downloaded /\ calls = 2 /\ cache[Key].age = 0

(***************************************************************************)
(* Properties of metrics_from_df (SpecMetrics)                             *)
(***************************************************************************)
\* the bars that have a close
NonNullCloses ==
    IF "Close" \in df.cols THEN {i \in 1..df.len : df.data["Close"][i] # NaN} ELSE {}

Latest(idx) == CHOOSE i \in idx : \A j \in idx : j <= i

\* C5 (as claimed): every field of the result is a number or None
C5_NumberOrNone ==
    pc = "done" => \A f \in MetricFields : m[f].k \in {"num", "none"}

\* C7: with fewer than two closes chg and chg_pct are None; with exactly one
\* close, last is that close.
C7_FewerThanTwoCloses ==
    (pc = "done" /\ Cardinality(NonNullCloses) < 2) =>
        /\ m.chg = None
        /\ m.chg_pct = None
        /\ Cardinality(NonNullCloses) = 1 => m.last = df.data["Close"][Latest(NonNullCloses)]

\* C7 witness: one close among three bars
C7_Witness ==
    /\ pc = "done" /\ df.len = 3 /\ Cardinality(NonNullCloses) = 1
    /\ m.last = Float(2) /\ m.chg = None

\* C8: when the previous close is 0, chg_pct is None and chg is last - 0.
C8_PreviousCloseZero ==
    (pc = "done" /\ Cardinality(NonNullCloses) >= 2) =>
        LET i1 == Latest(NonNullCloses)
            i2 == Latest(NonNullCloses \ {i1})
        IN df.data["Close"][i2] = Float(0) =>
              /\ m.chg_pct = None
              /\ m.chg = df.data["Close"][i1]

\* C8 witness: closes 0 then 2
C8_Witness ==
    /\ pc = "done" /\ df.len = 2 /\ "Close" \in df.cols
    /\ df.data["Close"] = <<Float(0), Float(2)>>
    /\ m.chg = Float(2) /\ m.chg_pct = None

\* C9: for a series with no bars, without a Close column, or whose closes are
\* all absent, all six fields are None, whatever High, Low and Volume hold.
C9_NoCloseAllUnknown ==
    (pc = "done" /\ NonNullCloses = {}) => \A f \in MetricFields : m[f] = None

\* C9 witness: a Close column with no value next to High, Low and Volume values
C9_Witness ==
    /\ pc = "done" /\ df.len = 2 /\ df.cols = {"High", "Low", "Close", "Volume"}
    /\ NonNullCloses = {}
    /\ df.data["High"][2] # NaN /\ df.data["Low"][2] # NaN /\ df.data["Volume"][2] # NaN
    /\ m.vol = None /\ m.hi = None

\* C10: with at least two closes, last is the latest close, chg is last minus
\* the close before it, and chg_pct is chg / previous * 100 when the previous
\* close is not 0.
C10_LastChangePercent ==
    (pc = "done" /\ Cardinality(NonNullCloses) >= 2) =>
        LET i1 == Latest(NonNullCloses)
            i2 == Latest(NonNullCloses \ {i1})
            c1 == df.data["Close"][i1].n
            c2 == df.data["Close"][i2].n
        IN /\ m.last = Float(c1)
           /\ m.chg = Float(c1 - c2)
           /\ c2 # 0 =>
                 /\ m.chg_pct.k = "num"
                 /\ m.chg_pct.d > 0
                 /\ m.chg_pct.n * c2 = (c1 - c2) * 100 * m.chg_pct.d

\* C10 witness: closes 2, 1 and a last bar without a close
C10_Witness ==
    /\ pc = "done" /\ df.len = 3 /\ "Close" \in df.cols
    /\ df.data["Close"] = <<Float(2), Float(1), NaN>>
    /\ m.last = Float(1) /\ m.chg = Float(-1) /\ m.chg_pct = Float(-50)
====
